---- MODULE Spec2Model ----
(***************************************************************************)
(* libetrv: the eTRVDevice session (src/libetrv/device.py) and the CLI      *)
(* front end (src/libetrv/cli.py).                                          *)
(*                                                                          *)
(* One caller drives one session.  connect() is a blocking retry loop, so   *)
(* it is modelled by its positions: "opening" (btle.Peripheral(address)),   *)
(* "authenticating" (send_pin) and "sleeping" (sleep(0.1) in the except     *)
(* branch).  Every other operation is one action.                           *)
(*                                                                          *)
(* Temperatures are integers in tenths of a degree Celsius.                 *)
(* The bluepy transport is the environment.  Its behaviour during one call  *)
(* is a script chosen when the call starts: how many times the link open    *)
(* raises BTLEDisconnectError and how it ends, how many times the PIN write *)
(* drops the link and how it ends.                                          *)
(***************************************************************************)
EXTENDS Integers, Sequences, FiniteSets, TLC

\* ------------------------------------------------------------------ bounds
MaxFail == 2          \* transient link-open failures scripted per open phase
MaxPinDrops == 1      \* link drops during the PIN write scripted per call
MaxTemp == 500        \* codec inputs range over -MaxTemp..MaxTemp tenths
MaxAdEntries == 2     \* advertisement fields per scanned device

\* ------------------------------------------------------- program constants
BATTERY_LEVEL_R == 16
PIN_W == 36
SETTINGS_RW == 42
TEMPERATURE_RW == 45
DEVICE_NAME_RW == 48
TIME_RW == 54
SECRET_R == 63
\* SCHEDULE_RW is the empty list in the source; the schedule slot is named 0.
SCHEDULE_RW == 0

DefaultPin == <<48, 48, 48, 48>>      \* b'0000'

NoDevice == 0         \* ble_device is None
Peripheral == 1       \* ble_device is a btle.Peripheral
NoSecret == "None"    \* secret is None
Forever == -1         \* a link open that fails on every attempt

\* Handles read or written through the etrv_read / etrv_write decorators.
ReadHandles ==
  {SECRET_R, SETTINGS_RW, TEMPERATURE_RW, BATTERY_LEVEL_R, DEVICE_NAME_RW,
   TIME_RW, SCHEDULE_RW}

\* A variant in which the secret-key slot is declared unprotected.
EncryptedOpen(h) == h # SECRET_R

\* The second argument of every etrv_read / etrv_write decoration: True.
Encrypted(h) == h \in ReadHandles

\* ------------------------------------------------------------ input sets
PinInputs == {<<49, 50, 51, 52>>, <<49, 50>>}
SecretInputs == {NoSecret, "key"}
\* set-point values a caller writes, tenths of a degree
SetPointInputs == {210, 213, 163840, -163845}

VARIABLES
  secret,       \* self.secret
  pin,          \* self.pin
  ble_device,   \* self.ble_device: NoDevice or Peripheral
  linkUp,       \* transport: the link of the Peripheral in ble_device is alive
  authed,       \* device: the PIN was accepted on the link of ble_device
  orphans,      \* transport: live links whose Peripheral the session no longer holds
  pc,           \* caller position: "idle", "opening", "authenticating", "sleeping", "io"
  call,         \* the operation in progress or last completed
  result,       \* its outcome: "pending", "ok", "value" or an error kind
  retval,       \* the value returned when result = "value"
  script,       \* transport behaviour for the current call
  trace,        \* transport operations of the current call, oldest first
  noPinUsed,    \* connect(send_pin=False) was called at least once
  slot,         \* device: raw set-point temperature held in the temperature slot
  pinSlot,      \* device: the bytes last written to the PIN slot, or <<>>
  value,        \* codec: temperature handed to the setter
  wire,         \* codec: bytes produced by the setter, or <<>>
  decoded,      \* codec: temperature read back, or <<>>
  devices,      \* scan: the devices btle.Scanner().scan(timeout) returns
  yielded       \* scan: the devices eTRVDevice.scan has yielded, in order

vars ==
  <<secret, pin, ble_device, linkUp, authed, orphans, pc, call,
    result, retval, script, trace, noPinUsed, slot, pinSlot, value, wire, decoded,
    devices, yielded>>

identityVars == <<secret, pin>>
codecVars == <<value, wire, decoded>>
scanVars == <<devices, yielded>>

\* ------------------------------------------------------------------ codec
\* int(x) of Python truncates toward zero; n / d with d > 0.
Trunc(n, d) == IF n >= 0 THEN n \div d ELSE -((-n) \div d)

\* Nearest integer to n / d (d > 0), ties to the even neighbour: Python round().
Round(n, d) ==
  LET f == n \div d
      r == n - f * d
  IN  IF 2 * r < d THEN f
      ELSE IF 2 * r > d THEN f + 1
      ELSE IF f % 2 = 0 THEN f ELSE f + 1

\* A variant of the setter body that keeps only the low 16 bits of the raw value.
SetPointRawWrapped(v) ==
  LET u == Trunc(2 * v, 10) % 65536
  IN  IF u >= 32768 THEN u - 65536 ELSE u

\* A variant of the setter body that stores the value undoubled.
SetPointRawUndoubled(v) == Trunc(v, 10)

\* set_point_temperature.setter: temp.set_point_temperature = int(value*2).
\* v is in tenths of a degree, so value*2 is 2*v/10.
SetPointRaw(v) == Trunc(2 * v, 10)

\* The TemperatureStruct the setter returns: only the set-point field is assigned.
SetPointStruct(v) == [room_temperature |-> 0, set_point_temperature |-> SetPointRaw(v)]

\* temperature: (data.room_temperature * .5, data.set_point_temperature * .5), in tenths.
Temperature(data) ==
  <<data.room_temperature * 5, data.set_point_temperature * 5>>

Int16 == -32768 .. 32767

\* A signed 16-bit field, little-endian, two's complement.
PackInt16(n) ==
  LET u == n % 65536 IN <<u % 256, u \div 256>>

UnpackInt16(lo, hi) ==
  LET u == lo + 256 * hi IN IF u >= 32768 THEN u - 65536 ELSE u

\* encode(TemperatureStruct, v): <<>> stands for EncodingError.
EncodeTemperature(s) ==
  IF s.room_temperature \in Int16 /\ s.set_point_temperature \in Int16
    THEN PackInt16(s.set_point_temperature) \o PackInt16(s.room_temperature)
    ELSE <<>>

\* decode(TemperatureStruct, bytes), defined on payloads of the struct's size.
TemperatureStructSize ==
  Len(EncodeTemperature([room_temperature |-> 0, set_point_temperature |-> 0]))

DecodeTemperature(b) ==
  [set_point_temperature |-> UnpackInt16(b[1], b[2]),
   room_temperature |-> UnpackInt16(b[3], b[4])]

\* The block cipher keyed by the device secret, as a keyed byte substitution.
KeyByte(k) == IF k = NoSecret THEN 0 ELSE 7

Encrypt(k, b) == [i \in 1 .. Len(b) |-> (b[i] + KeyByte(k)) % 256]

Decrypt(k, b) == [i \in 1 .. Len(b) |-> (b[i] - KeyByte(k)) % 256]

\* ----------------------------------------------------------------- device
DeviceSecret == "key"

\* What the device returns for a read of the temperature slot; it measures 20.5
\* degrees in the room (raw 41).
DeviceTemperaturePayload(sp) ==
  Encrypt(DeviceSecret,
          EncodeTemperature([room_temperature |-> 41,
                             set_point_temperature |-> sp]))

\* What the device stores on a write of payload b to the temperature slot.
DeviceStoreTemperature(b) ==
  DecodeTemperature(Decrypt(DeviceSecret, b)).set_point_temperature

\* ---------------------------------------------------------------- session
\* eTRVDevice.__init__(address, secret=None, pin=None)
Construct(secretArg, pinGiven, pinArg) ==
  [secret |-> secretArg, pin |-> IF pinGiven THEN pinArg ELSE DefaultPin]

\* CLI.__init__(pin=b'0000', secret=None) followed by CLI.retrive_key(device):
\* eTRVDevice(device, pin=self._pin), the secret left at its default.
ConstructByCLI(pinGiven, pinArg) ==
  Construct(NoSecret, TRUE, IF pinGiven THEN pinArg ELSE DefaultPin)

is_connected == ble_device # NoDevice

\* The ConnectionManager state of the design, read off the session.
State ==
  CASE pc \in {"opening", "sleeping"} -> "Connecting"
    [] pc = "authenticating" -> "Authenticating"
    [] OTHER -> IF is_connected THEN "Ready" ELSE "Disconnected"

\* The error taxonomy of the design applied to what the code raises.
ErrorKind(e) ==
  CASE e = "BTLEGattError" -> "AuthenticationError"
    [] e \in {"BTLEDisconnectError", "BTLEInternalError"} -> "TransportError"
    [] e \in {"AuthenticationError", "DecodeError", "EncodingError"} -> e
    [] OTHER -> "none"

Errors ==
  {"BTLEGattError", "BTLEDisconnectError", "BTLEInternalError", "AuthenticationError",
   "DecodeError", "EncodingError", "TypeError"}

NoCall == [op |-> "none", send_pin |-> TRUE, handle |-> 0, arg |-> 0, repeat |-> FALSE]

IdleScript == [openFails |-> 0, openEnd |-> "ok", pinDrops |-> 0, pinEnd |-> "accept"]

\* Transport behaviours a connect() call is run against.
Scripts ==
  [openFails : (0 .. MaxFail) \cup {Forever}, openEnd : {"ok", "error"},
   pinDrops : 0 .. MaxPinDrops, pinEnd : {"accept", "reject"}]

\* Transport behaviours the connect() inside a facade operation is run against:
\* the same loop, so one transient failure of each kind is kept.
OpScripts == {sc \in Scripts : sc.openFails \in {0, 1} /\ sc.pinDrops \in {0, 1}}

\* Link-open failures that follow a link drop during the PIN write.
ReopenFails == {0, 1}

\* Transport operations recorded per call: enough for every call that ends; a
\* connect() that never ends stops recording there.
TraceCap == MaxFail + 3 * MaxPinDrops + 3

Record(t, e) == IF Len(t) < TraceCap THEN Append(t, e) ELSE t

SessionInit(id) ==
  /\ secret = id.secret
  /\ pin = id.pin
  /\ ble_device = NoDevice
  /\ linkUp = FALSE
  /\ authed = FALSE
  /\ orphans = 0
  /\ pc = "idle"
  /\ call = NoCall
  /\ result = "ok"
  /\ retval = <<>>
  /\ script = IdleScript
  /\ trace = <<>>
  /\ noPinUsed = FALSE
  /\ slot = 0
  /\ pinSlot = <<>>

Init ==
  /\ \/ \E s \in SecretInputs, g \in BOOLEAN, p \in PinInputs :
          SessionInit(Construct(s, g, p))
     \/ \E g \in BOOLEAN, p \in PinInputs :
          SessionInit(ConstructByCLI(g, p))
  /\ value = 0
  /\ wire = <<>>
  /\ decoded = <<>>
  /\ devices = <<>>
  /\ yielded = <<>>

linkVars == <<ble_device, linkUp, authed, orphans>>

NewCall(o, sp, h, a) ==
  [op |-> o, send_pin |-> sp, handle |-> h, arg |-> a,
   repeat |-> (o = "disconnect" /\ call.op = "disconnect")]

\* connect() leaves its loop by break: a plain connect returns to the caller, a
\* facade operation goes on to its read or write.
ConnectReturns ==
  /\ script' = IdleScript
  /\ IF call.op = "connect"
       THEN pc' = "idle" /\ result' = "ok"
       ELSE pc' = "io" /\ result' = "pending"

\* A variant of the except branch that lets BTLEDisconnectError reach the caller.
SurfaceOnDisconnect(e) ==
  /\ trace' = Record(trace, e)
  /\ pc' = "idle"
  /\ result' = "BTLEDisconnectError"

\* except btle.BTLEDisconnectError: log, sleep(0.1), next iteration of while True.
RetryOnDisconnect(e) ==
  /\ trace' = Record(trace, e)
  /\ pc' = "sleeping"
  /\ result' = "pending"

\* A variant in which every bluepy exception is caught and retried.
RetryOnAny(e, exc) ==
  /\ trace' = Record(trace, e)
  /\ pc' = "sleeping"
  /\ result' = "pending"
  /\ script' = script

\* Any exception other than BTLEDisconnectError leaves connect() and the caller's
\* operation; nothing is undone.
Propagate(e, exc) ==
  /\ trace' = Record(trace, e)
  /\ pc' = "idle"
  /\ result' = exc
  /\ script' = IdleScript

\* A variant of connect() without the is_connected() early return.
ConnectCallUnguarded(sp) ==
  /\ pc = "idle"
  /\ call' = NewCall("connect", sp, 0, 0)
  /\ noPinUsed' = (noPinUsed \/ ~sp)
  /\ trace' = <<>>
  /\ retval' = <<>>
  /\ pc' = "opening"
  /\ result' = "pending"
  /\ script' \in Scripts
  /\ UNCHANGED <<linkVars, slot, pinSlot, identityVars, codecVars, scanVars>>

\* connect(send_pin) called by the caller: lines 62-65, then the loop is entered.
ConnectCall(sp) ==
  /\ pc = "idle"
  /\ call' = NewCall("connect", sp, 0, 0)
  /\ noPinUsed' = (noPinUsed \/ ~sp)
  /\ trace' = <<>>
  /\ retval' = <<>>
  /\ IF is_connected
       THEN pc' = "idle" /\ result' = "ok" /\ script' = IdleScript
       ELSE pc' = "opening" /\ result' = "pending" /\ script' \in Scripts
  /\ UNCHANGED <<linkVars, slot, pinSlot, identityVars, codecVars, scanVars>>

\* btle.Peripheral(address) raises BTLEDisconnectError: ble_device is not assigned.
OpenFails ==
  /\ pc = "opening"
  /\ script.openFails # 0
  /\ RetryOnDisconnect("open_fail")
  /\ script' = [script EXCEPT !.openFails = IF @ = Forever THEN Forever ELSE @ - 1]
  /\ UNCHANGED <<linkVars, call, retval, noPinUsed, slot, pinSlot, identityVars, codecVars, scanVars>>

\* btle.Peripheral(address) raises another bluepy error.
OpenError ==
  /\ pc = "opening"
  /\ script.openFails = 0
  /\ script.openEnd = "error"
  /\ Propagate("open_error", "BTLEInternalError")
  /\ UNCHANGED <<linkVars, call, retval, noPinUsed, slot, pinSlot, identityVars, codecVars, scanVars>>

\* A variant of the loop body that never calls send_pin().
OpenSucceedsNoPin ==
  /\ pc = "opening"
  /\ script.openFails = 0
  /\ script.openEnd = "ok"
  /\ ble_device' = Peripheral
  /\ orphans' = IF linkUp /\ orphans < 2 THEN orphans + 1 ELSE orphans
  /\ linkUp' = TRUE
  /\ authed' = FALSE
  /\ trace' = Record(trace, "open_ok")
  /\ ConnectReturns
  /\ UNCHANGED <<call, retval, noPinUsed, slot, pinSlot, identityVars, codecVars, scanVars>>

\* self.ble_device = btle.Peripheral(address) succeeds.  The Peripheral held
\* before is dropped without disconnect(): if its link is still alive it stays
\* open with nothing referring to it.
OpenSucceeds ==
  /\ pc = "opening"
  /\ script.openFails = 0
  /\ script.openEnd = "ok"
  /\ ble_device' = Peripheral
  /\ orphans' = IF linkUp /\ orphans < 2 THEN orphans + 1 ELSE orphans
  /\ linkUp' = TRUE
  /\ authed' = FALSE
  /\ trace' = Record(trace, "open_ok")
  /\ IF call.send_pin
       THEN pc' = "authenticating" /\ result' = "pending" /\ script' = script
       ELSE ConnectReturns
  /\ UNCHANGED <<call, retval, noPinUsed, slot, pinSlot, identityVars, codecVars, scanVars>>

\* send_pin(): writeCharacteristic(PIN_W, self.pin, True) raises
\* BTLEDisconnectError, caught by connect().  bluepy raises it once the link is
\* gone and its helper stopped, so the Peripheral left in ble_device is dead.
PinDropped ==
  /\ pc = "authenticating"
  /\ pinSlot' = pin
  /\ script.pinDrops > 0
  /\ RetryOnDisconnect("pin_drop")
  /\ linkUp' = FALSE
  /\ \E k \in ReopenFails :
       script' = [script EXCEPT !.pinDrops = @ - 1, !.openFails = k]
  /\ UNCHANGED <<ble_device, orphans, authed, call, retval, noPinUsed,
                 slot, identityVars, codecVars, scanVars>>

\* send_pin(): the device answers the write with an error (PIN rejected).
PinRejected ==
  /\ pc = "authenticating"
  /\ pinSlot' = pin
  /\ script.pinDrops = 0
  /\ script.pinEnd = "reject"
  /\ Propagate("pin_reject", "BTLEGattError")
  /\ UNCHANGED <<linkVars, call, retval, noPinUsed, slot, identityVars, codecVars, scanVars>>

\* send_pin(): writeCharacteristic(PIN_W, self.pin, True) is acknowledged.
PinAccepted ==
  /\ pc = "authenticating"
  /\ pinSlot' = pin
  /\ script.pinDrops = 0
  /\ script.pinEnd = "accept"
  /\ authed' = TRUE
  /\ trace' = Record(trace, "pin_ok")
  /\ ConnectReturns
  /\ UNCHANGED <<ble_device, orphans, linkUp, call, retval, noPinUsed,
                 slot, identityVars, codecVars, scanVars>>

\* sleep(0.1), then the loop opens the link again.
Sleep ==
  /\ pc = "sleeping"
  /\ pc' = "opening"
  /\ UNCHANGED <<linkVars, call, result, retval, script, trace, noPinUsed, slot,
                 pinSlot, identityVars, codecVars, scanVars>>

\* A variant of disconnect() that forgets to clear self.ble_device.
DisconnectKeepsDevice ==
  /\ pc = "idle"
  /\ call' = NewCall("disconnect", TRUE, 0, 0)
  /\ trace' = IF ble_device # NoDevice THEN <<"teardown">> ELSE <<>>
  /\ linkUp' = FALSE
  /\ authed' = FALSE
  /\ result' = "ok"
  /\ retval' = <<>>
  /\ UNCHANGED <<ble_device, orphans, pc, script, noPinUsed, slot,
                 pinSlot, identityVars, codecVars, scanVars>>

\* disconnect()
Disconnect ==
  /\ pc = "idle"
  /\ call' = NewCall("disconnect", TRUE, 0, 0)
  /\ IF ble_device # NoDevice
       THEN /\ trace' = <<"teardown">>
            /\ ble_device' = NoDevice
            /\ linkUp' = FALSE
            /\ authed' = FALSE
            /\ orphans' = orphans
       ELSE /\ trace' = <<>>
            /\ UNCHANGED <<ble_device, orphans, linkUp, authed>>
  /\ result' = "ok"
  /\ retval' = <<>>
  /\ UNCHANGED <<pc, script, noPinUsed, slot, pinSlot, identityVars,
                 codecVars, scanVars>>

\* ensure_ready() at the head of a facade operation c: connect(send_pin=True) unless
\* the session is connected already, then the operation's read or write.
EnsureReady(c) ==
  /\ pc = "idle"
  /\ call' = c
  /\ trace' = <<>>
  /\ retval' = <<>>
  /\ result' = "pending"
  /\ IF is_connected
       THEN pc' = "io" /\ script' = IdleScript
       ELSE pc' = "opening" /\ script' \in OpScripts
  /\ UNCHANGED <<linkVars, noPinUsed, slot, pinSlot, identityVars, codecVars, scanVars>>

\* A property read (retrieve_secret_key, settings, temperature, battery,
\* device_name, time, schedule) is called.
ReadCall(h) == EnsureReady(NewCall("read", TRUE, h, 0))

\* device.set_point_temperature = v is called.
WriteCall(v) == EnsureReady(NewCall("write", TRUE, TEMPERATURE_RW, v))

\* How a characteristic read or write on the open link can end.
IoOutcomes ==
  IF ~linkUp THEN {"drop"}
  ELSE IF authed THEN {"ok", "drop"} ELSE {"ok", "drop", "refused"}

\* The settings the device holds: frost protection 6.0 (raw 12), schedule mode 1,
\* vacation temperature 17.5 (raw 35), vacation from / to as epoch seconds.
DeviceSettings ==
  [frost_protection_temperature |-> 12, schedule_mode |-> 1,
   vacation_temperature |-> 35, vacation_from |-> 1000, vacation_to |-> 2000]

\* decode(SettingsStruct, bytes) of the device's settings payload.
DecodeSettings(plain) == DeviceSettings

\* settings: ret = Settings() calls the five-field namedtuple without arguments,
\* which raises TypeError before any field of data is read.
SettingsBody(data) == <<"TypeError", <<>>>>

\* The body of the decorated read method for handle h, applied to the decrypted
\* payload; the pair is <<result, retval>>.
ReadBody(h, plain) ==
  CASE h = TEMPERATURE_RW ->
         IF Len(plain) # TemperatureStructSize
           THEN <<"DecodeError", <<>>>>
           ELSE <<"value", Temperature(DecodeTemperature(plain))>>
    [] h = SETTINGS_RW -> SettingsBody(DecodeSettings(plain))
    [] OTHER -> <<"value", <<h>>>>

DevicePayload(h) ==
  IF h = TEMPERATURE_RW THEN DeviceTemperaturePayload(slot)
  ELSE Encrypt(DeviceSecret, <<h>>)

\* The read of a facade operation, after ensure_ready().
IoRead ==
  /\ pc = "io"
  /\ call.op = "read"
  /\ pc' = "idle"
  /\ IF Encrypted(call.handle) /\ secret = NoSecret
       THEN /\ result' = "AuthenticationError"
            /\ UNCHANGED <<retval, trace, linkUp>>
       ELSE \E o \in IoOutcomes :
              CASE o = "drop" ->
                     /\ result' = "BTLEDisconnectError"
                     /\ trace' = Record(trace, "read_drop")
                     /\ linkUp' = FALSE
                     /\ retval' = retval
                [] o = "refused" ->
                     /\ result' = "BTLEGattError"
                     /\ trace' = Record(trace, "read_refused")
                     /\ UNCHANGED <<linkUp, retval>>
                [] OTHER ->
                     LET plain == IF Encrypted(call.handle)
                                    THEN Decrypt(secret, DevicePayload(call.handle))
                                    ELSE DevicePayload(call.handle)
                         r == ReadBody(call.handle, plain)
                     IN  /\ result' = r[1]
                         /\ retval' = r[2]
                         /\ trace' = Record(trace, "read")
                         /\ linkUp' = linkUp
  /\ UNCHANGED <<ble_device, orphans, authed, call, script, noPinUsed,
                 slot, pinSlot, identityVars, codecVars, scanVars>>

\* The write of the set-point, after ensure_ready().
IoWrite ==
  /\ pc = "io"
  /\ call.op = "write"
  /\ pc' = "idle"
  /\ LET b == EncodeTemperature(SetPointStruct(call.arg))
     IN  IF b = <<>>
           THEN /\ result' = "EncodingError"
                /\ UNCHANGED <<trace, linkUp, slot>>
         ELSE IF Encrypted(call.handle) /\ secret = NoSecret
           THEN /\ result' = "AuthenticationError"
                /\ UNCHANGED <<trace, linkUp, slot>>
         ELSE \E o \in IoOutcomes :
                CASE o = "drop" ->
                       /\ result' = "BTLEDisconnectError"
                       /\ trace' = Record(trace, "write_drop")
                       /\ linkUp' = FALSE
                       /\ slot' = slot
                  [] o = "refused" ->
                       /\ result' = "BTLEGattError"
                       /\ trace' = Record(trace, "write_refused")
                       /\ UNCHANGED <<linkUp, slot>>
                  [] OTHER ->
                       /\ result' = "ok"
                       /\ trace' = Record(trace, "write")
                       /\ linkUp' = linkUp
                       /\ slot' = DeviceStoreTemperature(
                                    IF Encrypted(call.handle) THEN Encrypt(secret, b)
                                    ELSE Encrypt(DeviceSecret, b))
  /\ UNCHANGED <<ble_device, orphans, authed, call, retval, script,
                 noPinUsed, pinSlot, identityVars, codecVars, scanVars>>

ConnectStep ==
  OpenFails \/ OpenError \/ OpenSucceeds \/ PinDropped \/ PinRejected \/ PinAccepted
    \/ Sleep

Next ==
  \/ \E sp \in BOOLEAN : ConnectCall(sp)
  \/ OpenFails
  \/ OpenError
  \/ OpenSucceeds
  \/ PinDropped
  \/ PinRejected
  \/ PinAccepted
  \/ Sleep
  \/ Disconnect
  \/ \E h \in ReadHandles : ReadCall(h)
  \/ \E v \in SetPointInputs : WriteCall(v)
  \/ IoRead
  \/ IoWrite

Spec == Init /\ [][Next]_vars

\* connect() and the facade operations are blocking calls on one thread: a call
\* in progress keeps running.
FairSpec == Spec /\ WF_vars(ConnectStep \/ IoRead \/ IoWrite)

\* ------------------------------------------------------- codec in isolation
CodecInputs == (-MaxTemp .. MaxTemp) \cup {163835, 163840, -163845}

CodecInit ==
  /\ SessionInit(Construct(DeviceSecret, FALSE, DefaultPin))
  /\ value \in CodecInputs
  /\ wire = <<>>
  /\ decoded = <<>>
  /\ devices = <<>>
  /\ yielded = <<>>

\* The set-point write up to the bytes put on the wire.
CodecEncode ==
  /\ wire = <<>>
  /\ result = "ok"
  /\ LET b == EncodeTemperature(SetPointStruct(value))
     IN  IF b = <<>>
           THEN result' = "EncodingError" /\ wire' = wire
           ELSE result' = "ok" /\ wire' = Encrypt(secret, b)
  /\ UNCHANGED <<linkVars, pc, call, retval, script, trace, noPinUsed, slot,
                 pinSlot, identityVars, value, decoded, scanVars>>

\* The temperature read applied to those bytes.
CodecDecode ==
  /\ wire # <<>>
  /\ decoded = <<>>
  /\ decoded' = Temperature(DecodeTemperature(Decrypt(secret, wire)))
  /\ UNCHANGED <<linkVars, pc, call, result, retval, script, trace, noPinUsed, slot,
                 pinSlot, identityVars, value, wire, scanVars>>

CodecNext == CodecEncode \/ CodecDecode

CodecSpec == CodecInit /\ [][CodecNext]_vars

\* -------------------------------------------------------- scan in isolation
Marker == <<";", "e", "T", "R", "V">>

\* str.endswith
EndsWith(v, suffix) ==
  /\ Len(v) >= Len(suffix)
  /\ SubSeq(v, Len(v) - Len(suffix) + 1, Len(v)) = suffix

\* A variant of the test that ignores the advertisement type.
AdMatchesAnyType(entry) == EndsWith(entry[3], Marker)

\* adtype == 9 and value.endswith(';eTRV'), for entry = (adtype, desc, value)
AdMatches(entry) == entry[1] = 9 /\ EndsWith(entry[3], Marker)

\* The inner loop: dev is yielded once for every matching field of its scan data.
RECURSIVE YieldsOf(_, _)
YieldsOf(dev, data) ==
  IF data = <<>> THEN <<>>
  ELSE (IF AdMatches(Head(data)) THEN <<dev>> ELSE <<>>) \o YieldsOf(dev, Tail(data))

\* The outer loop over the scanned devices, in order.
RECURSIVE ScanYields(_)
ScanYields(devs) ==
  IF devs = <<>> THEN <<>>
  ELSE YieldsOf(Head(devs), Head(devs).scanData) \o ScanYields(Tail(devs))

\* CLI.scan: one line "addr, RSSI=rssi dB" per yielded device.
CLIScanLines(ys) == [i \in 1 .. Len(ys) |-> <<ys[i].addr, ys[i].rssi>>]

\* Advertisement fields the scanned devices carry.
AdValues == {Marker, <<"x">> \o Marker, Marker \o <<"x">>}

AdEntries == {<<t, "name", v>> : t \in {9, 8}, v \in AdValues}

ScanDatas == UNION {[1 .. n -> AdEntries] : n \in 0 .. MaxAdEntries}

\* Two devices in range, each with its own address and signal strength.
ScanInit ==
  /\ SessionInit(Construct(DeviceSecret, FALSE, DefaultPin))
  /\ value = 0
  /\ wire = <<>>
  /\ decoded = <<>>
  /\ \E da \in ScanDatas, db \in ScanDatas :
       devices = <<[addr |-> "a", rssi |-> -40, scanData |-> da],
                   [addr |-> "b", rssi |-> -70, scanData |-> db]>>
  /\ yielded = <<>>
  /\ pc = "idle"
  /\ call = NoCall

\* eTRVDevice.scan(timeout) run to exhaustion.
Scan ==
  /\ call.op = "none"
  /\ devices # <<>>
  /\ call' = NewCall("scan", TRUE, 0, 0)
  /\ yielded' = ScanYields(devices)
  /\ UNCHANGED <<linkVars, pc, result, retval, script, trace, noPinUsed, slot,
                 pinSlot, identityVars, codecVars, devices>>

ScanSpec == ScanInit /\ [][Scan]_vars

\* C14: scan yields a device if and only if one of its advertisement fields has
\* type 9 and a value ending with ';eTRV'; every yielded item is one of the
\* scanned devices, with its own address and signal strength.
C14_ScanFilter ==
  call.op = "scan" =>
    /\ \A i \in 1 .. Len(devices) :
         (\E j \in 1 .. Len(yielded) : yielded[j].addr = devices[i].addr)
           <=> (\E k \in 1 .. Len(devices[i].scanData) :
                  /\ devices[i].scanData[k][1] = 9
                  /\ Len(devices[i].scanData[k][3]) >= 5
                  /\ \A n \in 1 .. 5 :
                       devices[i].scanData[k][3]
                         [Len(devices[i].scanData[k][3]) - 5 + n] = Marker[n])
    /\ \A j \in 1 .. Len(yielded) :
         \E i \in 1 .. Len(devices) :
           /\ yielded[j] = devices[i]
           /\ CLIScanLines(yielded)[j] = <<devices[i].addr, devices[i].rssi>>

C14_Witness ==
  /\ call.op = "scan"
  /\ Len(yielded) = 1
  /\ yielded[1].addr = "b"
  /\ Len(devices[1].scanData) = 2
  /\ devices[1].scanData[1] = <<8, "name", Marker>>
  /\ devices[1].scanData[2] = <<9, "name", Marker \o <<"x">>>>


\* The raw set-point carried by the bytes in wire.
WireRaw == DecodeTemperature(Decrypt(secret, wire)).set_point_temperature

Events == {trace[i] : i \in 1 .. Len(trace)}

\* ------------------------------------------------------------------ claims

\* C1: connect() against a transport whose link open fails transiently a finite
\* number of times and then succeeds eventually returns normally with the session
\* connected; no intermediate failure reaches the caller.
C1_RetryThenReady ==
  (/\ pc = "opening"
   /\ call.op = "connect"
   /\ trace = <<>>
   /\ script.openFails \in 1 .. MaxFail
   /\ script.openEnd = "ok"
   /\ script.pinEnd = "accept")
    ~> (pc = "idle" /\ call.op = "connect" /\ result = "ok" /\ is_connected)

C1_Witness ==
  /\ pc = "idle"
  /\ call.op = "connect"
  /\ result = "ok"
  /\ is_connected
  /\ trace = <<"open_fail", "open_fail", "open_ok", "pin_ok">>

\* C2: a PIN write rejected by the device ends connect(send_pin=True) with an
\* AuthenticationError for the caller, and nothing is attempted after the
\* rejection: it is the last transport operation of the call.
C2_PinRejectionFatal ==
  \A i \in 1 .. Len(trace) :
    trace[i] = "pin_reject" =>
      /\ i = Len(trace)
      /\ pc = "idle"
      /\ ErrorKind(result) = "AuthenticationError"

C2_Witness ==
  /\ pc = "idle"
  /\ call.op = "connect"
  /\ call.send_pin
  /\ trace = <<"open_ok", "pin_reject">>
  /\ result = "BTLEGattError"

\* C3: a session only ever connected with send_pin=True is Ready only if the PIN
\* write succeeded on the open link, and a connect() that ended in an error does
\* not leave it reporting Ready.
C3_ReadyOnlyAfterPin ==
  ~noPinUsed =>
    /\ State = "Ready" => authed
    /\ (pc = "idle" /\ call.op = "connect" /\ result \in Errors) => ~is_connected

\* C4: connect(send_pin) on a connected session is a no-op: no link open, no PIN
\* write, link and state unchanged.
C4_ConnectWhenReadyNoOp ==
  [][(pc = "idle" /\ is_connected /\ call'.op = "connect") =>
       /\ pc' = "idle"
       /\ result' = "ok"
       /\ trace' = <<>>
       /\ UNCHANGED <<linkVars, slot>>]_vars

C4_Witness ==
  /\ pc = "idle"
  /\ call.op = "connect"
  /\ ~call.send_pin
  /\ trace = <<>>
  /\ is_connected
  /\ authed

\* C5: disconnect() leaves the session disconnected; an open link is torn down
\* exactly once, and a disconnect() with no link open performs no transport
\* operation and changes nothing.
C5_DisconnectIdempotent ==
  [][(pc = "idle" /\ call'.op = "disconnect") =>
       /\ pc' = "idle"
       /\ ble_device' = NoDevice
       /\ is_connected => trace' = <<"teardown">>
       /\ ~is_connected => (trace' = <<>> /\ UNCHANGED <<linkVars, slot>>)]_vars

C5_Witness ==
  /\ pc = "idle"
  /\ call.op = "disconnect"
  /\ call.repeat
  /\ trace = <<>>
  /\ ~is_connected

\* C6: connect() retries only failures of opening the link: a link drop during
\* the PIN write is surfaced to the caller and no link open follows it.
C6_OnlyOpenFailuresRetried ==
  \A i \in 1 .. Len(trace) :
    trace[i] = "pin_drop" =>
      /\ i = Len(trace)
      /\ pc = "idle"
      /\ result = "BTLEDisconnectError"

C8_HalfDegreeRoundTrip ==
  (value % 5 = 0 /\ value \in -MaxTemp .. MaxTemp) =>
    /\ result = "ok"
    /\ wire # <<>> => WireRaw * 10 = 2 * value
    /\ decoded # <<>> => decoded[2] = value

C8_Witness ==
  /\ value = 210
  /\ wire # <<>>
  /\ WireRaw = 42
  /\ decoded # <<>>
  /\ decoded[2] = 210

\* C9: the set-point write rounds to the nearest half degree: the raw integer is
\* round(v*2), so the written set-point is within 0.25 degree of v.
C9_WriteRoundsToNearest ==
  wire # <<>> =>
    /\ WireRaw = Round(2 * value, 10)
    /\ 2 * (WireRaw * 5 - value) \in -5 .. 5

\* C10: a set-point write whose raw value does not fit the signed 16-bit field
\* fails with EncodingError and writes nothing to the temperature slot.
C10_OverflowRejected ==
  [][(pc = "io" /\ call.op = "write" /\ Trunc(2 * call.arg, 10) \notin Int16) =>
       /\ pc' = "idle"
       /\ result' = "EncodingError"
       /\ slot' = slot
       /\ trace' = trace]_vars

C10_Witness ==
  /\ pc = "idle"
  /\ call.op = "write"
  /\ call.arg = 163840
  /\ secret # NoSecret
  /\ is_connected
  /\ authed
  /\ result = "EncodingError"
  /\ "write" \notin Events

\* C11: a settings read that reaches a well-formed payload on a session with a
\* secret returns the Settings value (temperatures are the raw fields times 0.5,
\* in tenths), and no operation ends in an error outside TransportError,
\* AuthenticationError, DecodeError and EncodingError.
C11_SettingsReadReturnsValue ==
  /\ (/\ pc = "idle"
      /\ call.op = "read"
      /\ call.handle = SETTINGS_RW
      /\ secret # NoSecret
      /\ authed
      /\ "read" \in Events)
       => /\ result = "value"
          /\ retval = <<DeviceSettings.frost_protection_temperature * 5,
                        DeviceSettings.schedule_mode,
                        DeviceSettings.vacation_temperature * 5,
                        DeviceSettings.vacation_from, DeviceSettings.vacation_to>>
  /\ result \in Errors => ErrorKind(result) # "none"

\* Characteristic reads and writes issued by the facade operations.
IoEvents == {"read", "read_drop", "read_refused", "write", "write_drop", "write_refused"}

\* C12: a facade operation issues its characteristic read or write only on a
\* connected session; when the session was not connected (as after disconnect())
\* the link is opened and the PIN written immediately before it.
C12_OperationsEnsureReady ==
  /\ \A i \in 1 .. Len(trace) :
       trace[i] \in IoEvents =>
         /\ is_connected
         /\ call.op \in {"read", "write"}
         /\ i = Len(trace)
         /\ i > 1 => (i > 2 /\ trace[i - 1] = "pin_ok" /\ trace[i - 2] = "open_ok")
  /\ (pc = "io" /\ ~(\E e \in Events : e = "open_ok")) => trace = <<>>
  /\ pc = "io" => is_connected

C12_Witness ==
  /\ pc = "idle"
  /\ call.op = "read"
  /\ call.handle = TEMPERATURE_RW
  /\ result = "value"
  /\ trace = <<"open_ok", "pin_ok", "read">>

\* C13: the PIN held by the session, and every value it writes to the PIN slot,
\* is exactly 4 bytes long.
C13_PinFourBytes ==
  /\ Len(pin) = 4
  /\ pinSlot # <<>> => Len(pinSlot) = 4

\* Links opened by the session that are open on the transport.
OpenLinks == orphans + (IF linkUp THEN 1 ELSE 0)

\* C15: the session owns at most one open link: connect() opens a link only when
\* no link it opened earlier is still open, retries included, and after
\* disconnect() none is left open.
C15_AtMostOneLink ==
  /\ OpenLinks <= 1
  /\ pc \in {"opening", "sleeping"} => OpenLinks = 0
  /\ (pc = "idle" /\ call.op = "disconnect") => (OpenLinks = 0 /\ ~is_connected)

C15_Witness ==
  /\ pc = "idle"
  /\ call.op = "connect"
  /\ result = "ok"
  /\ trace = <<"open_ok", "pin_drop", "open_ok", "pin_ok">>
  /\ OpenLinks = 1

\* Transport events that are a PIN write.
PinEvents == {"pin_ok", "pin_drop", "pin_reject"}

\* Position in trace of the open of the link the call holds (0: none opened).
LastOpen ==
  IF "open_ok" \in Events
    THEN CHOOSE i \in 1 .. Len(trace) :
           /\ trace[i] = "open_ok"
           /\ \A j \in (i + 1) .. Len(trace) : trace[j] # "open_ok"
    ELSE 0

PinWritesOnLink ==
  Cardinality({i \in (LastOpen + 1) .. Len(trace) : trace[i] \in PinEvents})

\* connect() has just returned normally, to the caller or to a facade operation.
ConnectReturned ==
  \/ pc = "idle" /\ call.op = "connect" /\ result = "ok"
  \/ pc = "io"

\* C16: on a link that connect() opened and leaves open on a normal return the
\* PIN was written exactly once if send_pin and never otherwise; a connected
\* session whose link carries no accepted PIN stays so, with no PIN written by
\* later connect calls, until disconnect().
C16_PinOncePerLink ==
  /\ []((ConnectReturned /\ LastOpen > 0) =>
          /\ linkUp
          /\ PinWritesOnLink = (IF call.send_pin THEN 1 ELSE 0)
          /\ authed = call.send_pin)
  /\ [][(pc \in {"idle", "io"} /\ is_connected /\ ~authed /\ call'.op # "disconnect") =>
          /\ pc' \in {"idle", "io"}
          /\ ~authed'
          /\ is_connected'
          /\ \A i \in 1 .. Len(trace') : trace'[i] \notin PinEvents \cup {"open_ok"}]_vars

C16_Witness ==
  /\ pc = "idle"
  /\ call.op = "connect"
  /\ call.send_pin
  /\ result = "ok"
  /\ trace = <<>>
  /\ noPinUsed
  /\ linkUp
  /\ ~authed

\* connect() is running against a transport on which every link open fails
\* transiently.
OpenNeverSucceeds ==
  /\ call.op = "connect"
  /\ script.openFails = Forever
  /\ pc \in {"opening", "sleeping"}

\* C17: connect() against a transport whose link open always fails transiently
\* neither returns nor raises: the call stays pending and disconnected, and every
\* failed attempt is followed by a new attempt, which fails in turn.
C17_EndlessRetry ==
  /\ [](OpenNeverSucceeds => (result = "pending" /\ ~is_connected /\ ~linkUp))
  /\ [][OpenNeverSucceeds => (OpenNeverSucceeds' /\ call' = call /\ pc' # pc)]_vars
  /\ (OpenNeverSucceeds /\ pc = "sleeping") ~> (OpenNeverSucceeds /\ pc = "opening")
  /\ (OpenNeverSucceeds /\ pc = "opening") ~> (OpenNeverSucceeds /\ pc = "sleeping")

C17_Witness ==
  /\ OpenNeverSucceeds
  /\ pc = "opening"
  /\ Len(trace) = TraceCap
  /\ Events = {"open_fail"}

====
